---- MODULE Spec2Model ----
(***************************************************************************)
(* Model of scripts/get-window-id.py: one query of the on-screen window    *)
(* list, a linear scan for the first layer-0 window owned by a process     *)
(* whose name contains "Chrome" or "Chromium", and the rendering of that   *)
(* window as a decimal id or as a JSON object of its bounds.               *)
(*                                                                         *)
(* Texts (owner names, standard output, the error stream) are sequences of *)
(* one-character strings.  Dictionaries are functions whose DOMAIN is the  *)
(* set of keys present.  Numbers are records [kind, v]: kind "int" is a    *)
(* Python int, kind "float" is a whole-valued float (Quartz hands bounds   *)
(* out as CGFloat), whose value is v.                                      *)
(***************************************************************************)
EXTENDS Integers, Sequences, FiniteSets

VARIABLES
    screen,      \* the platform's on-screen window list (front to back)
    argv,        \* sys.argv of the current / last process
    windows,     \* local `windows` of main()
    i,           \* position of the for loop in `windows` (1-based)
    pc,          \* "idle" | "scan" | "exited"
    stdout,      \* text written to standard output by the current / last run
    stderr,      \* text written to the error stream by the current / last run
    exitStatus,  \* process exit status of the last run (-1 while none)
    result,      \* what the scan of the current / last run came to:
                 \* "Pending" | "Found" (the window at i) | "NotFound"
    log          \* history: one record per finished run, oldest first

vars == <<screen, argv, windows, i, pc, stdout, stderr, exitStatus, result, log>>

-----------------------------------------------------------------------------
(* Bounds of the model *)

MaxWindows == 2      \* longest on-screen window list
MaxArgs == 2         \* most command-line arguments after the script name
MaxRuns == 2         \* most invocations against one window list

-----------------------------------------------------------------------------
(* Texts *)

NL == <<"\n">>
Chrome == <<"C","h","r","o","m","e">>
Chromium == <<"C","h","r","o","m","i","u","m">>
WindowNotFound == <<"W","i","n","d","o","w"," ","n","o","t"," ","f","o","u","n","d">>
KeyErrorText ==
    <<"K","e","y","E","r","r","o","r",":"," ","'","k","C","G","W","i","n","d","o","w",
      "N","u","m","b","e","r","'">>

Finder == <<"F","i","n","d","e","r">>
GoogleChrome == <<"G","o","o","g","l","e"," ">> \o Chrome
ChromiumHelper == Chromium \o <<" ","H","e","l","p","e","r">>
LowerChrome == <<"c","h","r","o","m","e">>

Digits == <<"0","1","2","3","4","5","6","7","8","9">>

\* Python `frag in s` on str: substring containment, case-sensitive.
Contains(s, frag) ==
    \E k \in 1..(Len(s) - Len(frag) + 1) : SubSeq(s, k, k + Len(frag) - 1) = frag

RECURSIVE DecNat(_)
DecNat(n) ==
    IF n < 10 THEN <<Digits[n + 1]>>
    ELSE DecNat(n \div 10) \o <<Digits[(n % 10) + 1]>>

\* Variant of Dec: the digits least significant first.
RECURSIVE DecNatReversed(_)
DecNatReversed(n) ==
    IF n < 10 THEN <<Digits[n + 1]>>
    ELSE <<Digits[(n % 10) + 1]>> \o DecNatReversed(n \div 10)

DecReversed(n) == IF n < 0 THEN <<"-">> \o DecNatReversed(0 - n) ELSE DecNatReversed(n)

\* str() of a Python int: decimal digits, most significant first, "-" if negative.
Dec(n) == IF n < 0 THEN <<"-">> \o DecNat(0 - n) ELSE DecNat(n)

-----------------------------------------------------------------------------
(* Numbers and dictionaries *)

Int_(v) == [kind |-> "int", v |-> v]
Float_(v) == [kind |-> "float", v |-> v]

\* dict.get(key, default)
Get(d, key, default) == IF key \in DOMAIN d THEN d[key] ELSE default

EmptyDict == <<>>
LayerDefault == 999

\* Variant of PyInt: the number is passed on as it is, a float stays a float.
PyIntKeep(n) == n

\* int(x) of a number: a Python int of the same (whole) value.
PyInt(n) == Int_(n.v)

\* json.dumps of a number: an int as its decimal digits, a float with its
\* fraction digits.
JsonNumber(n) == IF n.kind = "float" THEN Dec(n.v) \o <<".","0">> ELSE Dec(n.v)

RECURSIVE JsonItems(_)
JsonItems(pairs) ==
    IF pairs = <<>> THEN <<>>
    ELSE <<"\"">> \o pairs[1][1] \o <<"\"",":"," ">> \o JsonNumber(pairs[1][2])
         \o (IF Len(pairs) > 1 THEN <<","," ">> ELSE <<>>)
         \o JsonItems(Tail(pairs))

\* json.dumps of a dict of numbers, keys in insertion order, default separators.
JsonDumps(pairs) == <<"{">> \o JsonItems(pairs) \o <<"}">>

-----------------------------------------------------------------------------
(* The platform: window descriptors and command lines *)

FullBounds == [X |-> Float_(10), Y |-> Float_(20), Width |-> Float_(800), Height |-> Float_(600)]
PartBounds == [X |-> Int_(-10), Width |-> Float_(1280)]

Descriptors ==
    { [kCGWindowOwnerName |-> Finder, kCGWindowLayer |-> Int_(0),
       kCGWindowNumber |-> Int_(5), kCGWindowBounds |-> FullBounds],
      [kCGWindowOwnerName |-> GoogleChrome, kCGWindowLayer |-> Int_(0),
       kCGWindowNumber |-> Int_(42), kCGWindowBounds |-> FullBounds],
      [kCGWindowOwnerName |-> GoogleChrome, kCGWindowLayer |-> Int_(0),
       kCGWindowNumber |-> Int_(7)],
      [kCGWindowOwnerName |-> GoogleChrome, kCGWindowLayer |-> Int_(0),
       kCGWindowNumber |-> Int_(105), kCGWindowBounds |-> PartBounds],
      [kCGWindowOwnerName |-> GoogleChrome, kCGWindowLayer |-> Int_(4),
       kCGWindowNumber |-> Int_(7), kCGWindowBounds |-> FullBounds],
      [kCGWindowOwnerName |-> GoogleChrome,
       kCGWindowNumber |-> Int_(6), kCGWindowBounds |-> FullBounds],
      [kCGWindowOwnerName |-> ChromiumHelper, kCGWindowLayer |-> Int_(0),
       kCGWindowNumber |-> Int_(99), kCGWindowBounds |-> FullBounds],
      [kCGWindowOwnerName |-> LowerChrome, kCGWindowLayer |-> Int_(0),
       kCGWindowNumber |-> Int_(3), kCGWindowBounds |-> FullBounds],
      [kCGWindowLayer |-> Int_(0),
       kCGWindowNumber |-> Int_(8), kCGWindowBounds |-> FullBounds],
      [kCGWindowOwnerName |-> GoogleChrome, kCGWindowLayer |-> Int_(0),
       kCGWindowBounds |-> FullBounds] }

SeqsUpTo(S, n) == UNION { [1..k -> S] : k \in 0..n }

WindowLists == SeqsUpTo(Descriptors, MaxWindows)

ScriptName == "get-window-id.py"
ArgTokens == {"--bounds", "-v"}
CommandLines == { <<ScriptName>> \o a : a \in SeqsUpTo(ArgTokens, MaxArgs) }

-----------------------------------------------------------------------------
(* main() *)

\* Variants of Matches: without the "Chromium" fragment, without the layer
\* test, and with an absent layer read as 0.
MatchesNoChromium(w) ==
    /\ Get(w, "kCGWindowLayer", Int_(LayerDefault)).v = 0
    /\ Contains(Get(w, "kCGWindowOwnerName", <<>>), Chrome)

MatchesNoLayer(w) ==
    \/ Contains(Get(w, "kCGWindowOwnerName", <<>>), Chrome)
    \/ Contains(Get(w, "kCGWindowOwnerName", <<>>), Chromium)

MatchesLayerDefaultZero(w) ==
    /\ Get(w, "kCGWindowLayer", Int_(0)).v = 0
    /\ \/ Contains(Get(w, "kCGWindowOwnerName", <<>>), Chrome)
       \/ Contains(Get(w, "kCGWindowOwnerName", <<>>), Chromium)

\* line 22, the condition of the if, on the values read at lines 20-21
Matches(w) ==
    /\ Get(w, "kCGWindowLayer", Int_(LayerDefault)).v = 0
    /\ \/ Contains(Get(w, "kCGWindowOwnerName", <<>>), Chrome)
       \/ Contains(Get(w, "kCGWindowOwnerName", <<>>), Chromium)

\* Variant of HasBoundsFlag: only the first argument is looked at.
HasBoundsFlagFirstOnly(av) == Len(av) >= 2 /\ av[2] = "--bounds"

\* line 24: "--bounds" in sys.argv

HasBoundsFlag(av) == \E k \in 1..Len(av) : av[k] = "--bounds"

\* lines 25-35: the text json.dumps returns for window w
BoundsJson(w) ==
    LET wid == PyInt(w["kCGWindowNumber"])
        bounds == Get(w, "kCGWindowBounds", EmptyDict)
    IN  JsonDumps(<< <<<<"i","d">>, wid>>,
                     <<<<"x">>, PyInt(Get(bounds, "X", Int_(0)))>>,
                     <<<<"y">>, PyInt(Get(bounds, "Y", Int_(0)))>>,
                     <<<<"w","i","d","t","h">>, PyInt(Get(bounds, "Width", Int_(0)))>>,
                     <<<<"h","e","i","g","h","t">>, PyInt(Get(bounds, "Height", Int_(0)))>> >>)

\* The history record of a run that ends now: sel is <<>> or <<w>> for the
\* descriptor the scan stopped at, out the text on standard output.
Entry(sel, st, out) ==
    [bounds |-> HasBoundsFlag(argv), sel |-> sel, status |-> st, out |-> out]

\* A process starts with command line av and runs lines 15-17.
Start(av) ==
    /\ pc \in {"idle", "exited"}
    /\ Len(log) < MaxRuns
    /\ argv' = av
    /\ windows' = screen
    /\ i' = 1
    /\ pc' = "scan"
    /\ stdout' = <<>>
    /\ stderr' = <<>>
    /\ exitStatus' = -1
    /\ result' = "Pending"
    /\ UNCHANGED <<screen, log>>

\* lines 19-22: the window at the loop position does not match; next one.
Skip ==
    /\ pc = "scan"
    /\ i <= Len(windows)
    /\ ~Matches(windows[i])
    /\ i' = i + 1
    /\ UNCHANGED <<screen, argv, windows, pc, stdout, stderr, exitStatus, result, log>>

\* line 23: the matching window has no kCGWindowNumber; w[...] raises KeyError,
\* nothing catches it: the interpreter reports it on the error stream (of the
\* traceback only the last line is kept here) and the exit status is 1.
RaiseKeyError ==
    /\ pc = "scan"
    /\ i <= Len(windows)
    /\ Matches(windows[i])
    /\ "kCGWindowNumber" \notin DOMAIN windows[i]
    /\ stderr' = stderr \o KeyErrorText \o NL
    /\ exitStatus' = 1
    /\ pc' = "exited"
    /\ result' = "Found"
    /\ log' = Append(log, Entry(<<windows[i]>>, 1, stdout))
    /\ UNCHANGED <<screen, argv, windows, i, stdout>>

\* Variant of EmitBounds: the bounds are read with w["kCGWindowBounds"], which
\* raises KeyError when the window has none.
EmitBoundsStrict ==
    /\ pc = "scan"
    /\ i <= Len(windows)
    /\ Matches(windows[i])
    /\ "kCGWindowNumber" \in DOMAIN windows[i]
    /\ HasBoundsFlag(argv)
    /\ IF "kCGWindowBounds" \in DOMAIN windows[i]
       THEN /\ stdout' = stdout \o BoundsJson(windows[i]) \o NL
            /\ stderr' = stderr
            /\ exitStatus' = 0
       ELSE /\ stdout' = stdout
            /\ stderr' = stderr \o KeyErrorText \o NL
            /\ exitStatus' = 1
    /\ pc' = "exited"
    /\ result' = "Found"
    /\ log' = Append(log, Entry(<<windows[i]>>, exitStatus', stdout'))
    /\ UNCHANGED <<screen, argv, windows, i>>

\* lines 23-36, 39: match, --bounds given
EmitBounds ==
    /\ pc = "scan"
    /\ i <= Len(windows)
    /\ Matches(windows[i])
    /\ "kCGWindowNumber" \in DOMAIN windows[i]
    /\ HasBoundsFlag(argv)
    /\ stdout' = stdout \o BoundsJson(windows[i]) \o NL
    /\ exitStatus' = 0
    /\ pc' = "exited"
    /\ result' = "Found"
    /\ log' = Append(log, Entry(<<windows[i]>>, 0, stdout'))
    /\ UNCHANGED <<screen, argv, windows, i, stderr>>

\* Variant of EmitId: the window that was printed is taken off the list the
\* next query returns.
EmitIdConsume ==
    /\ pc = "scan"
    /\ i <= Len(windows)
    /\ Matches(windows[i])
    /\ "kCGWindowNumber" \in DOMAIN windows[i]
    /\ ~HasBoundsFlag(argv)
    /\ stdout' = stdout \o Dec(PyInt(windows[i]["kCGWindowNumber"]).v) \o NL
    /\ exitStatus' = 0
    /\ pc' = "exited"
    /\ result' = "Found"
    /\ log' = Append(log, Entry(<<windows[i]>>, 0, stdout'))
    /\ screen' = SubSeq(screen, 1, i - 1) \o SubSeq(screen, i + 1, Len(screen))
    /\ UNCHANGED <<argv, windows, i, stderr>>

\* lines 23, 37-39: match, no --bounds
EmitId ==
    /\ pc = "scan"
    /\ i <= Len(windows)
    /\ Matches(windows[i])
    /\ "kCGWindowNumber" \in DOMAIN windows[i]
    /\ ~HasBoundsFlag(argv)
    /\ stdout' = stdout \o Dec(PyInt(windows[i]["kCGWindowNumber"]).v) \o NL
    /\ exitStatus' = 0
    /\ pc' = "exited"
    /\ result' = "Found"
    /\ log' = Append(log, Entry(<<windows[i]>>, 0, stdout'))
    /\ UNCHANGED <<screen, argv, windows, i, stderr>>

\* Variant of NotFound: the diagnostic goes to standard output.
NotFoundToStdout ==
    /\ pc = "scan"
    /\ i > Len(windows)
    /\ stdout' = stdout \o WindowNotFound \o NL
    /\ exitStatus' = 1
    /\ pc' = "exited"
    /\ result' = "NotFound"
    /\ log' = Append(log, Entry(<<>>, 1, stdout'))
    /\ UNCHANGED <<screen, argv, windows, i, stderr>>

\* lines 41-42: the loop ran off the end of the list
NotFound ==
    /\ pc = "scan"
    /\ i > Len(windows)
    /\ stderr' = stderr \o WindowNotFound \o NL
    /\ exitStatus' = 1
    /\ pc' = "exited"
    /\ result' = "NotFound"
    /\ log' = Append(log, Entry(<<>>, 1, stdout))
    /\ UNCHANGED <<screen, argv, windows, i, stdout>>

Init ==
    /\ screen \in WindowLists
    /\ argv = <<>>
    /\ windows = <<>>
    /\ i = 1
    /\ pc = "idle"
    /\ stdout = <<>>
    /\ stderr = <<>>
    /\ exitStatus = -1
    /\ result = "Pending"
    /\ log = <<>>

Next ==
    \/ \E av \in CommandLines : Start(av)
    \/ Skip
    \/ RaiseKeyError
    \/ EmitBounds
    \/ EmitId
    \/ NotFound

Spec == Init /\ [][Next]_vars

TypeOK ==
    /\ screen \in WindowLists
    /\ pc \in {"idle", "scan", "exited"}
    /\ i \in 1..(MaxWindows + 1)
    /\ exitStatus \in {-1, 0, 1}
    /\ result \in {"Pending", "Found", "NotFound"}
    /\ Len(log) <= MaxRuns

-----------------------------------------------------------------------------
(* Vocabulary of the properties, stated on the descriptors themselves *)

Range(f) == { f[k] : k \in DOMAIN f }

NameContains(d, frag) ==
    /\ "kCGWindowOwnerName" \in DOMAIN d
    /\ \E a, b \in 0..Len(d.kCGWindowOwnerName) :
          /\ a + Len(frag) + b = Len(d.kCGWindowOwnerName)
          /\ \A k \in 1..Len(frag) : d.kCGWindowOwnerName[a + k] = frag[k]

\* layer == 0 and an owner name containing "Chrome" or "Chromium"
Qualifies(d) ==
    /\ "kCGWindowLayer" \in DOMAIN d
    /\ d.kCGWindowLayer.v = 0
    /\ (NameContains(d, Chrome) \/ NameContains(d, Chromium))

SomeQualifies(ws) == \E k \in 1..Len(ws) : Qualifies(ws[k])

FirstQualifying(ws) ==
    CHOOSE k \in 1..Len(ws) : Qualifies(ws[k]) /\ \A j \in 1..(k - 1) : ~Qualifies(ws[j])

HasId(d) == "kCGWindowNumber" \in DOMAIN d

DigitValue(c) == CHOOSE v \in 0..9 : Digits[v + 1] = c
IsDigit(c) == \E v \in 0..9 : Digits[v + 1] = c

\* the number a text of decimal digits denotes
RECURSIVE ParseDec(_)
ParseDec(t) ==
    IF Len(t) = 1 THEN DigitValue(t[1])
    ELSE 10 * ParseDec(SubSeq(t, 1, Len(t) - 1)) + DigitValue(t[Len(t)])

\* the longest run of digits of t that starts at position k
RECURSIVE DigitRun(_, _)
DigitRun(t, k) ==
    IF k <= Len(t) /\ IsDigit(t[k]) THEN <<t[k]>> \o DigitRun(t, k + 1) ELSE <<>>

IdPrefix == <<"{", "\"", "i", "d", "\"", ":", " ">>

\* the window id a successful run printed, in either output form
PrintedId ==
    IF stdout[1] = "{" THEN ParseDec(DigitRun(stdout, Len(IdPrefix) + 1))
    ELSE ParseDec(DigitRun(stdout, 1))

\* the value the JSON object is to carry for bound field k of descriptor d
BoundOrZero(d, k) ==
    IF "kCGWindowBounds" \in DOMAIN d /\ k \in DOMAIN d.kCGWindowBounds
    THEN d.kCGWindowBounds[k].v
    ELSE 0

ExpectedJson(d) ==
    <<"{", "\"", "i", "d", "\"", ":", " ">> \o Dec(d.kCGWindowNumber.v)
    \o <<",", " ", "\"", "x", "\"", ":", " ">> \o Dec(BoundOrZero(d, "X"))
    \o <<",", " ", "\"", "y", "\"", ":", " ">> \o Dec(BoundOrZero(d, "Y"))
    \o <<",", " ", "\"", "w", "i", "d", "t", "h", "\"", ":", " ">> \o Dec(BoundOrZero(d, "Width"))
    \o <<",", " ", "\"", "h", "e", "i", "g", "h", "t", "\"", ":", " ">> \o Dec(BoundOrZero(d, "Height"))
    \o <<"}">>

Exited == pc = "exited"

\* the two outcomes of a run that the documented interface knows
Success == exitStatus = 0 /\ stderr = <<>> /\ Len(stdout) >= 2 /\ stdout[Len(stdout)] = "\n"
TargetNotFound == exitStatus = 1 /\ stderr = WindowNotFound \o NL /\ stdout = <<>>

-----------------------------------------------------------------------------
(* Properties *)

\* C1: whenever the window list holds a descriptor with layer 0 and an owner
\* name containing "Chrome" or "Chromium", the scan stops at the first such
\* descriptor and at no later one, and the id a successful run prints is the
\* window number of that first descriptor.
C1_FirstMatchWins ==
    (Exited /\ SomeQualifies(screen)) =>
        /\ result = "Found"
        /\ i = FirstQualifying(screen)
        /\ exitStatus = 0 => PrintedId = screen[FirstQualifying(screen)].kCGWindowNumber.v

C1_Witness ==
    /\ Exited
    /\ exitStatus = 0
    /\ i = 1
    /\ Len(screen) = 2
    /\ Qualifies(screen[1]) /\ Qualifies(screen[2])
    /\ HasId(screen[2]) /\ screen[1].kCGWindowNumber # screen[2].kCGWindowNumber

\* C2: when no descriptor of the list (the empty list included) has layer 0
\* and an owner name containing "Chrome" or "Chromium", the run ends in
\* NotFound; and NotFound is reached only with every descriptor of the list
\* passed by the scan.
C2_NoMatchNotFound ==
    /\ (Exited /\ ~SomeQualifies(screen)) => result = "NotFound"
    /\ result = "NotFound" => i = Len(screen) + 1

C2_Witness ==
    /\ Exited
    /\ result = "NotFound"
    /\ Len(screen) = 2
    /\ NameContains(screen[1], Chrome)
    /\ ~NameContains(screen[2], Chrome)

\* C3: a run whose result is NotFound has written "Window not found" to the
\* error stream and nothing to standard output and has exit status 1, with
\* or without --bounds on the command line.
C3_NotFoundOutcome ==
    result = "NotFound" =>
        /\ stderr = WindowNotFound \o NL
        /\ stdout = <<>>
        /\ exitStatus = 1

C3_Witness ==
    /\ Exited
    /\ result = "NotFound"
    /\ "--bounds" \in Range(argv)
    /\ Len(screen) > 0

\* C4: a run with --bounds that found descriptor d (carrying a window number)
\* has written exactly one line to standard output, the JSON object with the
\* keys id, x, y, width, height in this order, id being d's window number and
\* each other value the field of d's bounds, or 0 where the field or the
\* bounds are absent; its exit status is 0.
C4_BoundsJsonOutput ==
    (Exited /\ result = "Found" /\ HasId(windows[i]) /\ "--bounds" \in Range(argv)) =>
        /\ stdout = ExpectedJson(windows[i]) \o NL
        /\ exitStatus = 0

C4_Witness ==
    /\ Exited
    /\ result = "Found"
    /\ "--bounds" \in Range(argv)
    /\ HasId(windows[i])
    /\ "kCGWindowBounds" \in DOMAIN windows[i]
    /\ DOMAIN windows[i].kCGWindowBounds = {"X", "Width"}
    /\ windows[i].kCGWindowBounds.Width.kind = "float"

\* C5: a run without --bounds that found descriptor d (carrying a window
\* number) has written to standard output the decimal digits of d's window
\* number, most significant first, then a newline and nothing else; it wrote
\* nothing to the error stream and its exit status is 0.
C5_IdOnlyOutput ==
    (Exited /\ result = "Found" /\ HasId(windows[i]) /\ "--bounds" \notin Range(argv)) =>
        /\ Len(stdout) >= 2
        /\ stdout[Len(stdout)] = "\n"
        /\ \A k \in 1..(Len(stdout) - 1) : IsDigit(stdout[k])
        /\ stdout[1] = "0" => Len(stdout) = 2
        /\ ParseDec(SubSeq(stdout, 1, Len(stdout) - 1)) = windows[i].kCGWindowNumber.v
        /\ stderr = <<>>
        /\ exitStatus = 0

C5_Witness ==
    /\ Exited
    /\ result = "Found"
    /\ "--bounds" \notin Range(argv)
    /\ HasId(windows[i])
    /\ windows[i].kCGWindowNumber.v >= 100

\* C6: a run that emits a window emits the JSON object exactly when the text
\* --bounds is one of the elements of the command line, at whatever position,
\* and the plain id otherwise.
C6_ModeSelection ==
    (Exited /\ exitStatus = 0) => (stdout[1] = "{" <=> "--bounds" \in Range(argv))

C6_Witness ==
    /\ Exited
    /\ exitStatus = 0
    /\ Len(argv) = 3
    /\ argv[2] # "--bounds"
    /\ argv[3] = "--bounds"
    /\ stdout[1] = "{"

\* C7: two runs against the same window list, one with and one without
\* --bounds, stop at the same descriptor (or both at none) and end with the
\* same exit status.
C7_ModeIndependence ==
    \A a, b \in 1..Len(log) :
        log[a].bounds # log[b].bounds =>
            /\ log[a].sel = log[b].sel
            /\ log[a].status = log[b].status

C7_Witness ==
    /\ Len(log) = 2
    /\ log[1].bounds # log[2].bounds
    /\ log[1].sel # <<>>
    /\ log[1].status = 0
    /\ log[1].out # log[2].out
    /\ "kCGWindowBounds" \notin DOMAIN log[1].sel[1]

\* C8: all runs against one window list come to the same selection result,
\* and the window list is after any number of runs what it was before them.
C8_Idempotence ==
    /\ \A a, b \in 1..Len(log) : log[a].sel = log[b].sel
    /\ log # <<>> => screen = windows

C8_Witness ==
    /\ Len(log) = 2
    /\ log[1].bounds = log[2].bounds
    /\ log[1].status = 0
    /\ Len(screen) = 2
    /\ Qualifies(screen[1]) /\ Qualifies(screen[2])

\* C9: every run ends either in success (one line on standard output, exit
\* status 0) or in TargetNotFound (the diagnostic on the error stream, exit
\* status 1), and in no other way.
C9_SingleErrorKind == Exited => (Success \/ TargetNotFound)

\* C10: the scan never stops at a descriptor that has no layer field, whatever
\* its owner name; a list in which every descriptor named for Chrome or
\* Chromium has no layer field ends in NotFound.
C10_AbsentLayerNeverSelected ==
    /\ result = "Found" => "kCGWindowLayer" \in DOMAIN windows[i]
    /\ (Exited /\ \A k \in 1..Len(screen) :
            (NameContains(screen[k], Chrome) \/ NameContains(screen[k], Chromium))
                => "kCGWindowLayer" \notin DOMAIN screen[k])
       => result = "NotFound"

C10_Witness ==
    /\ Exited
    /\ result = "NotFound"
    /\ Len(screen) = 1
    /\ "kCGWindowLayer" \notin DOMAIN screen[1]
    /\ NameContains(screen[1], Chrome)

====
